---- MODULE Spec2Model ----
(***************************************************************************)
(* The numeric core of the roll-phi widgets:                               *)
(*   - BinomViz.pascal (src/binomial.js): the memoized divide-and-conquer  *)
(*     convolution that fills the `triangle` cache of coefficient rows;    *)
(*   - Normal.probit (src/rollφ.js): the Newton iteration inverting cdf;   *)
(*   - NormViz's mouse handlers (src/rollφ.js): the range selection that   *)
(*     drives the "left" and "right" attributes.                           *)
(*                                                                         *)
(* JavaScript BigInt values are modelled as sign-magnitude numbers whose   *)
(* magnitude is a little-endian sequence of limbs in base 2^15, so that    *)
(* every limb product fits TLC's 32-bit integers.  A BigInt64Array cell    *)
(* keeps BigInt.asIntN(64, v) of whatever is stored into it.               *)
(***************************************************************************)
EXTENDS Integers, Sequences, FiniteSets, TLC

VARIABLES
    die,        \* the "die" attribute as BinomViz.die reads it
    triangle,   \* BinomViz.triangle: row index -> [typed, cells]
    ret,        \* outcome of the last top-level pascal(n) call
    log,        \* the pascal invocations of the last top-level call, in order
    ppc,        \* where the probit call is: "idle", "loop" or "done"
    y,          \* probit's argument, in units of 1/YScale, or "NaN"
    cnt,        \* probit's loop counter
    x,          \* probit's x, as the number of Newton updates applied to 0
    fx,         \* probit's fx = cdf(x) - y, as "big", "small" or "nan"
    pout,       \* what the probit call produced
    dragging,   \* NormViz.dragging: "undefined", "true" or "false"
    dragLock,   \* NormViz.dragLock: "undefined", "true" or "false"
    dragStart,  \* NormViz.dragStart: offsetX of the last mousedown
    dragTime,   \* NormViz.dragTime: Date.now() at the last mousedown
    leftAttr,   \* the "left" attribute of the norm-viz element
    rightAttr,  \* the "right" attribute of the norm-viz element
    now,        \* what Date.now() returns, in milliseconds
    ev          \* the mouse event whose handler ran last

engineVars == <<die, triangle, ret, log>>
probitVars == <<ppc, y, cnt, x, fx, pout>>
vizVars == <<dragging, dragLock, dragStart, dragTime, leftAttr, rightAttr, now, ev>>
vars == <<engineVars, probitVars, vizVars>>

----------------------------------------------------------------------------
(* Bounds of the model *)

MaxN == 3       \* row indices -1..MaxN are requested densely
MaxDie == 3     \* dice 1..MaxDie are modelled densely
YScale == 4     \* probit arguments are the multiples of 1/YScale in [-1/YScale, 1+1/YScale]
Width == 4      \* NormViz.width in pixels (500 unless the attribute says otherwise)
MaxClock == 603 \* Date.now() stops advancing here

(* Program constants *)

SizeGuard == 1000   \* n * die > 1000 throws
TypedBelow == 27    \* n < 27 rows live in a BigInt64Array
MaxIter == 40       \* cnt < 40 in probit's loop
maxX == 4           \* NormViz.maxX
LongPress == 200    \* Date.now() - dragTime > 200 makes a mouseup a drag

----------------------------------------------------------------------------
(* Arbitrary-precision integers (JavaScript BigInt) *)

Base == 2^15

RECURSIVE MagNorm(_)
MagNorm(a) ==
    IF a = <<>> THEN <<>>
    ELSE IF a[Len(a)] = 0 THEN MagNorm(SubSeq(a, 1, Len(a) - 1))
    ELSE a

Limb(a, i) == IF i <= Len(a) THEN a[i] ELSE 0

RECURSIVE MagAddC(_, _, _, _)
MagAddC(a, b, i, c) ==
    IF i > Len(a) /\ i > Len(b)
    THEN IF c = 0 THEN <<>> ELSE <<c>>
    ELSE LET s == Limb(a, i) + Limb(b, i) + c
         IN  <<s % Base>> \o MagAddC(a, b, i + 1, s \div Base)

MagAdd(a, b) ==
    IF a = <<>> THEN b ELSE IF b = <<>> THEN a ELSE MagAddC(a, b, 1, 0)

\* a - b for a >= b
RECURSIVE MagSubB(_, _, _, _)
MagSubB(a, b, i, w) ==
    IF i > Len(a) THEN <<>>
    ELSE LET s == a[i] - Limb(b, i) - w
         IN  IF s < 0 THEN <<s + Base>> \o MagSubB(a, b, i + 1, 1)
             ELSE <<s>> \o MagSubB(a, b, i + 1, 0)

MagSub(a, b) == IF b = <<>> THEN a ELSE MagNorm(MagSubB(a, b, 1, 0))

\* TRUE iff a < b, comparing from limb i downwards (equal lengths)
RECURSIVE MagLessAt(_, _, _)
MagLessAt(a, b, i) ==
    IF i = 0 THEN FALSE
    ELSE IF a[i] # b[i] THEN a[i] < b[i]
    ELSE MagLessAt(a, b, i - 1)

MagLess(a, b) ==
    IF Len(a) # Len(b) THEN Len(a) < Len(b) ELSE MagLessAt(a, b, Len(a))

RECURSIVE MagMulLimbC(_, _, _, _)
MagMulLimbC(a, d, i, c) ==
    IF i > Len(a)
    THEN IF c = 0 THEN <<>> ELSE <<c>>
    ELSE LET s == a[i] * d + c
         IN  <<s % Base>> \o MagMulLimbC(a, d, i + 1, s \div Base)

MagMulLimb(a, d) ==
    IF d = 0 THEN <<>> ELSE IF d = 1 THEN a ELSE MagMulLimbC(a, d, 1, 0)

MagShift(a) == IF a = <<>> THEN <<>> ELSE <<0>> \o a

RECURSIVE MagMulAt(_, _, _)
MagMulAt(a, b, i) ==
    IF i = Len(b) THEN MagMulLimb(a, b[i])
    ELSE MagAdd(MagMulLimb(a, b[i]), MagShift(MagMulAt(a, b, i + 1)))

MagMul(a, b) ==
    IF a = <<>> \/ b = <<>> THEN <<>>
    ELSE IF Len(b) <= Len(a) THEN MagMulAt(a, b, 1) ELSE MagMulAt(b, a, 1)

Big(neg, mag) == [neg |-> neg /\ mag # <<>>, mag |-> mag]

Zero == Big(FALSE, <<>>)
One == Big(FALSE, <<1>>)

BigAdd(u, v) ==
    IF u.neg = v.neg THEN Big(u.neg, MagAdd(u.mag, v.mag))
    ELSE IF MagLess(u.mag, v.mag) THEN Big(v.neg, MagSub(v.mag, u.mag))
    ELSE Big(u.neg, MagSub(u.mag, v.mag))

BigMul(u, v) == Big(u.neg # v.neg, MagMul(u.mag, v.mag))

\* 2^64 = 16 * (2^15)^4 and 2^63 = 8 * (2^15)^4
Two64 == <<0, 0, 0, 0, 16>>
Two63 == <<0, 0, 0, 0, 8>>

\* the low 64 bits of a magnitude
Low64(a) ==
    IF Len(a) < 5 THEN a
    ELSE MagNorm(<<a[1], a[2], a[3], a[4], a[5] % 16>>)

\* BigInt.asIntN(64, u): the value a BigInt64Array cell keeps
asIntN64(u) ==
    IF Len(u.mag) < 5 THEN u
    ELSE LET low == Low64(u.mag)
         IN  IF u.neg
             THEN IF MagLess(Two63, low) THEN Big(FALSE, MagSub(Two64, low))
                  ELSE Big(TRUE, low)
             ELSE IF MagLess(low, Two63) THEN Big(FALSE, low)
                  ELSE Big(TRUE, MagSub(Two64, low))

----------------------------------------------------------------------------
(* BinomViz.pascal *)

\* a slip: (n - 1) >> 1 for n >> 1
Shr1Slip(n) == (n - 1) \div 2

\* n >> 1 on the 32-bit integers pascal is called with
Shr1(n) == n \div 2

\* a slip: one cell too many
RowLengthOff(d, n) == (d - 1) * n + 2

\* length of the row allocated for index n
RowLength(d, n) == (d - 1) * n + 1

\* new BigInt64Array(len) / new Array(len).fill(0n)
ZeroRow(len) == [k \in 1..len |-> Zero]

\* triangle[n][k] += v, with the store a typed array performs
Store(typed, v) == IF typed THEN asIntN64(v) ELSE v

\* The inner loop over j for one i: triangle[n][i+j] += left[i] * right[j]
\* for j = 0..right.length-1.  Cells are 1-based here, so the code's index
\* i+j is cell i+j+1; for a fixed i the loop touches each cell at most once.
\* Reading past the end of the target row yields undefined, and
\* undefined + BigInt throws a TypeError: the cells before it are already
\* updated and the loops stop.
ConvJ(acc, left, right, i) ==
    [typed |-> acc.typed,
     ok |-> i + Len(right) <= Len(acc.cells),
     cells |-> [k \in 1..Len(acc.cells) |->
                  IF k - i >= 1 /\ k - i <= Len(right)
                  THEN Store(acc.typed,
                             BigAdd(acc.cells[k], BigMul(left[i + 1], right[k - i])))
                  ELSE acc.cells[k]]]

\* The outer loop over i = 0..left.length-1
RECURSIVE ConvI(_, _, _, _)
ConvI(acc, left, right, i) ==
    IF ~acc.ok \/ i >= Len(left) THEN acc
    ELSE ConvI(ConvJ(acc, left, right, i), left, right, i + 1)

Convolve(row, left, right) ==
    ConvI([typed |-> row.typed, ok |-> TRUE, cells |-> row.cells], left, right, 0)

\* a slip: a test for a cached row that never finds one
CachedNever(tri, n) == FALSE

\* this.triangle[n] === undefined is FALSE
Cached(tri, n) == n \in DOMAIN tri

\* the log entry of one invocation
Call(n, from, how) == [n |-> n, from |-> from, how |-> how]

\* throw `n must be >= 1, got ${n}`
InvalidArgument(tri, n, from, lg) ==
    [tri |-> tri, err |-> "InvalidArgument", cells |-> <<>>,
     log |-> Append(lg, Call(n, from, "throw"))]

\* a slip: the size guard tested after the row has been allocated
TooLargeAfterAlloc(tri, d, n, from, lg) ==
    [tri |-> (n :> [typed |-> n < TypedBelow,
                    cells |-> [k \in 1..((d - 1) * n + 1) |-> Zero]]) @@ tri,
     err |-> "ComputationTooLarge", cells |-> <<>>,
     log |-> Append(lg, [n |-> n, from |-> from, how |-> "throw"])]

\* throw `You must be kidding!`: nothing has been allocated yet
TooLarge(tri, d, n, from, lg) ==
    [tri |-> tri, err |-> "ComputationTooLarge", cells |-> <<>>,
     log |-> Append(lg, Call(n, from, "throw"))]

\* the generator-built row of die ones
BaseRow(d) == [typed |-> TRUE, cells |-> [k \in 1..d |-> One]]

\* One invocation of pascal(n) on cache tri under die d, called from `from`
\* (0 for the top-level call).  Returns the cache afterwards, the error
\* thrown ("none" when it returns), the returned cells and the invocations
\* made so far.  An exception in a sub-call propagates with the cache as the
\* sub-call left it, the freshly allocated row included.
RECURSIVE pascal(_, _, _, _, _)
pascal(tri, d, n, from, lg) ==
    IF n < 1 THEN InvalidArgument(tri, n, from, lg)
    ELSE IF Cached(tri, n)
    THEN [tri |-> tri, err |-> "none", cells |-> tri[n].cells,
          log |-> Append(lg, Call(n, from, "hit"))]
    ELSE IF n = 1
    THEN [tri |-> (n :> BaseRow(d)) @@ tri, err |-> "none",
          cells |-> BaseRow(d).cells,
          log |-> Append(lg, Call(n, from, "base"))]
    ELSE IF n * d > SizeGuard THEN TooLarge(tri, d, n, from, lg)
    ELSE LET zero == [typed |-> n < TypedBelow, cells |-> ZeroRow(RowLength(d, n))]
             L == pascal((n :> zero) @@ tri, d, Shr1(n), n,
                         Append(lg, Call(n, from, "conv")))
         IN  IF L.err # "none" THEN L
             ELSE LET R == pascal(L.tri, d, n - Shr1(n), n, L.log)
                  IN  IF R.err # "none" THEN R
                      ELSE LET c == Convolve(R.tri[n], L.cells, R.cells)
                           IN  [tri |-> [R.tri EXCEPT ![n] =
                                           [typed |-> c.typed, cells |-> c.cells]],
                                err |-> IF c.ok THEN "none" ELSE "TypeError",
                                cells |-> IF c.ok THEN c.cells ELSE <<>>,
                                log |-> R.log]

----------------------------------------------------------------------------
(* The engine as a state machine *)

Dice == 1..MaxDie
BigDice == {7, SizeGuard + 1}
Requests == (-1..MaxN) \cup {TypedBelow - 1, TypedBelow, SizeGuard}
BigRequests == {-1, 0, 1, 2, TypedBelow - 1, SizeGuard}

NoRet == [kind |-> "none", n |-> 0, die |-> 0, cells |-> <<>>]

(* NormViz: attribute values                                               *)
(*                                                                         *)
(* A plot-frame number is a record: finite numbers carry their value in    *)
(* units of 1/Width, so that c2p of an integer pixel is exact.  An         *)
(* attribute holds the string of such a number, or null when it is absent; *)
(* String and parseFloat convert between the two.                          *)

Fin(v) == [kind |-> "num", num |-> v]
NegInf == [kind |-> "-Infinity", num |-> 0]
PosInf == [kind |-> "Infinity", num |-> 0]
NotANumber == [kind |-> "NaN", num |-> 0]
Null == [kind |-> "null", num |-> 0]

\* String(v), as setAttribute stores a number
String(v) == [kind |-> v.kind, num |-> v.num]

\* parseFloat of an attribute value; getAttribute gives null when absent
parseFloat(s) == IF s.kind = "null" THEN NotANumber ELSE [kind |-> s.kind, num |-> s.num]

isNaN(v) == v.kind = "NaN"

\* a <= b on JavaScript numbers
LessEq(a, b) ==
    /\ ~isNaN(a)
    /\ ~isNaN(b)
    /\ \/ a.kind = "-Infinity"
       \/ b.kind = "Infinity"
       \/ a.kind = "num" /\ b.kind = "num" /\ a.num <= b.num

MathMin(a, b) == IF a < b THEN a ELSE b
MathMax(a, b) == IF a > b THEN a ELSE b

\* c2p(x) = x * maxX * 2 / width - maxX, in units of 1/Width
c2p(px) == Fin(px * maxX * 2 - maxX * Width)

\* get left / get right
Left == LET l == parseFloat(leftAttr) IN IF isNaN(l) THEN NegInf ELSE l
Right == LET r == parseFloat(rightAttr) IN IF isNaN(r) THEN PosInf ELSE r

\* the body of set left, up to its setAttribute
leftNorm(val) ==
    LET v == parseFloat(String(val))
    IN  IF LessEq(v, Fin(-(maxX * Width))) THEN NegInf ELSE v

\* the body of set right, up to its setAttribute
rightNorm(val) ==
    LET v == parseFloat(String(val))
    IN  IF LessEq(Fin(maxX * Width), v) THEN PosInf ELSE v

\* this.left = val: the setter stores the attribute, and
\* attributeChangedCallback assigns the stored string once more when it
\* differs from the old one
leftSet(old, val) ==
    LET new == String(leftNorm(val))
    IN  IF old # new THEN String(leftNorm(parseFloat(new))) ELSE new

\* this.right = val, likewise
rightSet(old, val) ==
    LET new == String(rightNorm(val))
    IN  IF old # new THEN String(rightNorm(parseFloat(new))) ELSE new

Truthy(b) == b = "true"

NoEvent == [type |-> "none", offsetX |-> 0]

\* a connected norm-viz with the mouse-events attribute and neither a left
\* nor a right attribute.  dragStart and dragTime are undefined until the
\* first mousedown; they are read only while this.dragging is true, which
\* only mousedown makes it, so 0 stands for them here.
VizNew ==
    /\ dragging = "undefined"
    /\ dragLock = "undefined"
    /\ dragStart = 0
    /\ dragTime = 0
    /\ leftAttr = Null
    /\ rightAttr = Null
    /\ now = 0
    /\ ev = NoEvent

ProbitIdle ==
    /\ ppc = "idle"
    /\ y = [nan |-> TRUE, num |-> 0]
    /\ cnt = 0
    /\ x = 0
    /\ fx = "none"
    /\ pout = "none"

EngineNew ==
    /\ triangle = <<>>
    /\ ret = NoRet
    /\ log = <<>>

Init == die \in Dice /\ EngineNew /\ ProbitIdle /\ VizNew

InitBig == die \in Dice \cup BigDice /\ EngineNew /\ ProbitIdle /\ VizNew

\* a top-level call pascal(n), as draw() and connectedCallback() make it
Row(n) ==
    LET r == pascal(triangle, die, n, 0, <<>>)
    IN  /\ triangle' = r.tri
        /\ ret' = [kind |-> IF r.err = "none" THEN "row" ELSE r.err,
                   n |-> n, die |-> die, cells |-> r.cells]
        /\ log' = r.log
        /\ UNCHANGED <<die, probitVars, vizVars>>

\* the page sets the "die" attribute; it is not an observed attribute, so
\* no callback runs and the cache is left as it is
SetDie(d) ==
    /\ d # die
    /\ die' = d
    /\ UNCHANGED <<triangle, ret, log, probitVars, vizVars>>

----------------------------------------------------------------------------
(* Normal.probit *)

\* A double is either NaN or a number, here a multiple of 1/YScale.
\* Every comparison with NaN is false.
Num(v) == [nan |-> FALSE, num |-> v]
NaN == [nan |-> TRUE, num |-> 0]
Lt(a, b) == ~a.nan /\ ~b.nan /\ a.num < b.num
Gt(a, b) == ~a.nan /\ ~b.nan /\ a.num > b.num
Eq(a, b) == ~a.nan /\ ~b.nan /\ a.num = b.num

\* a slip: y >= 1 for y > 1
OutOfDomainSlip(v) == Lt(v, Num(0)) \/ Gt(v, Num(YScale)) \/ Eq(v, Num(YScale))

\* y < 0 || y > 1
OutOfDomain(v) == Lt(v, Num(0)) \/ Gt(v, Num(YScale))

\* a slip: the loop without its cap
LoopCondNoCap(f, c) == f = "big"

\* Math.abs(fx) > 2.3e-16 && cnt < 40
LoopCond(f, c) == f = "big" /\ c < MaxIter

\* What Normal.cdf(x) - y can be: NaN when y is NaN; otherwise the model
\* does not compute erfc and leaves open whether the magnitude exceeds
\* 2.3e-16, and (after an update, when pdf(x) may have underflowed to 0)
\* whether the result is NaN.
FirstFx(v) == IF v.nan THEN {"nan"} ELSE {"big", "small"}
LaterFx == {"big", "small", "nan"}

\* probit(v) up to the first test of the loop condition
ProbitCall(v) ==
    /\ ppc \in {"idle", "done"}
    /\ y' = v
    /\ cnt' = 0
    /\ x' = 0
    /\ IF OutOfDomain(v)
       THEN ppc' = "done" /\ pout' = "throw" /\ fx' = "none"
       ELSE IF Eq(v, Num(0))
       THEN ppc' = "done" /\ pout' = "-Infinity" /\ fx' = "none"
       ELSE IF Eq(v, Num(YScale))
       THEN ppc' = "done" /\ pout' = "Infinity" /\ fx' = "none"
       ELSE ppc' = "loop" /\ pout' = "none" /\ fx' \in FirstFx(v)
    /\ UNCHANGED <<engineVars, vizVars>>

\* one pass through the loop body and cnt++
NewtonStep ==
    /\ ppc = "loop"
    /\ LoopCond(fx, cnt)
    /\ x' = x + 1
    /\ fx' \in LaterFx
    /\ cnt' = cnt + 1
    /\ UNCHANGED <<ppc, y, pout, engineVars, vizVars>>

\* the loop condition fails: return x
ProbitReturn ==
    /\ ppc = "loop"
    /\ ~LoopCond(fx, cnt)
    /\ ppc' = "done"
    /\ pout' = "x"
    /\ UNCHANGED <<y, cnt, x, fx, engineVars, vizVars>>

YInputs == {Num(v) : v \in -1..(YScale + 1)} \cup {NaN}

NextProbit ==
    \/ \E v \in YInputs : ProbitCall(v)
    \/ NewtonStep
    \/ ProbitReturn

----------------------------------------------------------------------------
(* NormViz: the mouse handlers installed by connectedCallback *)

Pixels == -1..(Width + 1)
TickSteps == {LongPress, LongPress + 1}

\* as setRange, the dragLock test dropped
setRangeNoLock(px) ==
    IF Truthy(dragging)
    THEN [l |-> leftSet(leftAttr, c2p(MathMin(dragStart, px))),
          r |-> rightSet(rightAttr, c2p(MathMax(dragStart, px)))]
    ELSE [l |-> leftSet(leftAttr, c2p(px)), r |-> rightAttr]

\* setRange(x): the attributes it leaves
setRange(px) ==
    IF Truthy(dragging)
    THEN [l |-> leftSet(leftAttr, c2p(MathMin(dragStart, px))),
          r |-> rightSet(rightAttr, c2p(MathMax(dragStart, px)))]
    ELSE IF ~Truthy(dragLock)
         THEN [l |-> leftSet(leftAttr, c2p(px)), r |-> rightAttr]
         ELSE [l |-> leftAttr, r |-> rightAttr]

\* as Reset, the right bound left as it is
ResetLeftOnly == [l |-> leftSet(leftAttr, NegInf), r |-> rightAttr]

\* this.left = -Infinity; this.right = Infinity
Reset == [l |-> leftSet(leftAttr, NegInf), r |-> rightSet(rightAttr, PosInf)]

mousedown(px) ==
    /\ dragging' = "true"
    /\ dragLock' = "false"
    /\ dragStart' = px
    /\ dragTime' = now
    /\ ev' = [type |-> "mousedown", offsetX |-> px]
    /\ UNCHANGED <<leftAttr, rightAttr, now, engineVars, probitVars>>

mouseup(px) ==
    /\ IF Truthy(dragging)
       THEN /\ IF now - dragTime > LongPress
               THEN /\ leftAttr' = setRange(px).l
                    /\ rightAttr' = setRange(px).r
                    /\ dragLock' = "true"
               ELSE /\ leftAttr' = Reset.l
                    /\ rightAttr' = Reset.r
                    /\ dragLock' = "false"
            /\ dragging' = "false"
       ELSE UNCHANGED <<leftAttr, rightAttr, dragging, dragLock>>
    /\ ev' = [type |-> "mouseup", offsetX |-> px]
    /\ UNCHANGED <<dragStart, dragTime, now, engineVars, probitVars>>

mousemove(px) ==
    /\ leftAttr' = setRange(px).l
    /\ rightAttr' = setRange(px).r
    /\ ev' = [type |-> "mousemove", offsetX |-> px]
    /\ UNCHANGED <<dragging, dragLock, dragStart, dragTime, now, engineVars, probitVars>>

mouseleave(px) ==
    /\ IF Truthy(dragging)
       THEN /\ leftAttr' = setRange(px).l
            /\ rightAttr' = setRange(px).r
            /\ dragging' = "false"
            /\ dragLock' = "true"
       ELSE IF ~Truthy(dragLock)
            THEN /\ leftAttr' = Reset.l
                 /\ rightAttr' = Reset.r
                 /\ UNCHANGED <<dragging, dragLock>>
            ELSE UNCHANGED <<leftAttr, rightAttr, dragging, dragLock>>
    /\ ev' = [type |-> "mouseleave", offsetX |-> px]
    /\ UNCHANGED <<dragStart, dragTime, now, engineVars, probitVars>>

\* time passes between two events
Tick(dt) ==
    /\ now + dt <= MaxClock
    /\ now' = now + dt
    /\ UNCHANGED <<dragging, dragLock, dragStart, dragTime, leftAttr, rightAttr, ev,
                   engineVars, probitVars>>

NextViz ==
    \/ \E px \in Pixels : mousedown(px)
    \/ \E px \in Pixels : mouseup(px)
    \/ \E px \in Pixels : mousemove(px)
    \/ \E px \in Pixels : mouseleave(px)
    \/ \E dt \in TickSteps : Tick(dt)

----------------------------------------------------------------------------
(* Specifications *)

Next == \E n \in Requests : Row(n)

NextBig == \E n \in BigRequests : Row(n)

NextAttr ==
    \/ \E n \in -1..MaxN : Row(n)
    \/ \E d \in Dice : SetDie(d)

\* one engine, its die fixed
Spec == Init /\ [][Next]_vars

\* the same, the dice that reach 64-bit overflow and the n = 1 guard included
SpecBig == InitBig /\ [][NextBig]_vars

\* one engine whose die attribute changes between calls
SpecAttr == Init /\ [][NextAttr]_vars

\* calls of Normal.probit, one at a time
SpecProbit == Init /\ [][NextProbit]_vars

\* one norm-viz widget receiving mouse events
SpecViz == Init /\ [][NextViz]_vars

----------------------------------------------------------------------------
(* Reference values the properties compare the rows with *)

Min(a, b) == IF a < b THEN a ELSE b
Max(a, b) == IF a > b THEN a ELSE b

\* cells[lo] + ... + cells[hi], exactly
RECURSIVE SumRange(_, _, _)
SumRange(cells, lo, hi) ==
    IF lo > hi THEN Zero
    ELSE IF lo = hi THEN cells[lo]
    ELSE LET mid == (lo + hi) \div 2
         IN  BigAdd(SumRange(cells, lo, mid), SumRange(cells, mid + 1, hi))

\* d^n, exactly (d below the limb base)
RECURSIVE BigPow(_, _)
BigPow(d, n) ==
    IF n = 0 THEN One ELSE BigMul(Big(FALSE, <<d>>), BigPow(d, n - 1))

\* Ways(d, n)[i+1]: the number of ways n dice with faces 1..d sum to i + n,
\* one die added at a time: the last die shows 1..d.
RECURSIVE Ways(_, _)
Ways(d, n) ==
    IF d = 1 THEN <<One>>
    ELSE IF n = 1 THEN [k \in 1..d |-> One]
    ELSE LET prev == Ways(d, n - 1)
         IN  [k \in 1..((d - 1) * n + 1) |->
                SumRange(prev, Max(1, k - d + 1), Min(k, Len(prev)))]

Returned == ret.kind = "row"

----------------------------------------------------------------------------
(* C1: with the die fixed, every row that pascal(n) returns for n*die <=    *)
(* 1000 is exactly the coefficient row of (1 + x + ... + x^(die-1))^n:      *)
(* entry i is the number of ways n dice sum to i + n.                       *)
C1_ExactCoefficients ==
    Returned /\ ret.n * ret.die <= SizeGuard
        => ret.cells = Ways(ret.die, ret.n)

(* C2: for die >= 2 and n*die <= 1000 the entries of every returned row     *)
(* sum to die^n exactly.                                                    *)
C2_SumIsPower ==
    Returned /\ ret.die >= 2 /\ ret.n * ret.die <= SizeGuard
        => SumRange(ret.cells, 1, Len(ret.cells)) = BigPow(ret.die, ret.n)

(* C3: whenever n >= 1 and n*die > 1000 the call fails with                 *)
(* ComputationTooLarge and returns no row, n = 1 included.                  *)
C3_GuardAlwaysFails ==
    ret.kind # "none" /\ ret.n >= 1 /\ ret.n * ret.die > SizeGuard
        => ret.kind = "ComputationTooLarge" /\ ret.cells = <<>>

(* C4: whatever the die was changed to between calls, a returned row and    *)
(* every cached row the call reused are coefficient rows of the die the     *)
(* call ran under.                                                          *)
C4_RowsOfCurrentDie ==
    Returned =>
        /\ Len(ret.cells) = (ret.die - 1) * ret.n + 1
        /\ \A i \in 1..Len(log) :
              log[i].how = "hit"
                  => triangle[log[i].n].cells = Ways(ret.die, log[i].n)

(* C5: a call with n < 1 fails with InvalidArgument before anything else    *)
(* happens, a failing call leaves the cache exactly as it was, and no       *)
(* zero-filled row is ever cached.                                          *)
C5_FailureKeepsCache ==
    /\ [](\A k \in DOMAIN triangle : triangle[k].cells[1] = One)
    /\ [][/\ ret'.kind \in {"InvalidArgument", "ComputationTooLarge"}
              => triangle' = triangle
          /\ ret'.kind # "none" /\ ret'.n < 1
              => /\ ret'.kind = "InvalidArgument"
                 /\ log' = <<Call(ret'.n, 0, "throw")>>]_vars

C5_Witness ==
    /\ ret.kind = "ComputationTooLarge"
    /\ TypedBelow \in DOMAIN triangle

(* C6: a cached row is never recomputed, evicted or modified by a later     *)
(* call; a call computes a row index at most once, only if it was not       *)
(* cached before the call, and stores every row it computes, so that the    *)
(* cache holds both halves of every row it holds.                           *)
C6_Memoized ==
    /\ [](\A k \in DOMAIN triangle :
            k >= 2 => /\ k \div 2 \in DOMAIN triangle
                      /\ k - (k \div 2) \in DOMAIN triangle)
    /\ [][/\ \A k \in DOMAIN triangle :
                 k \in DOMAIN triangle' /\ triangle'[k] = triangle[k]
           /\ \A i \in 1..Len(log') :
                 log'[i].how \in {"conv", "base"}
                     => /\ log'[i].n \notin DOMAIN triangle
                        /\ log'[i].n \in DOMAIN triangle'
                        /\ \A j \in 1..Len(log') :
                              j # i /\ log'[j].n = log'[i].n
                                  => log'[j].how = "hit"]_vars

\* a call that convolved new rows out of rows cached by earlier calls
C6_Witness ==
    /\ Returned
    /\ \E i \in 1..Len(log) : log[i].how = "conv"
    /\ \E j \in 1..Len(log) : log[j].how = "hit" /\ log[j].from # 0
    /\ \A k \in 1..Len(log) : log[k].how # "base"

(* C7: every returned row has length (die-1)*n + 1 and reads the same in    *)
(* both directions.                                                         *)
C7_LengthAndSymmetry ==
    Returned =>
        /\ Len(ret.cells) = (ret.die - 1) * ret.n + 1
        /\ \A i \in 1..Len(ret.cells) :
              ret.cells[i] = ret.cells[Len(ret.cells) + 1 - i]

\* a returned row in which 64-bit storage has wrapped to a negative entry
C7_Witness ==
    /\ Returned
    /\ Len(ret.cells) > 1
    /\ \E i \in 1..Len(ret.cells) : ret.cells[i].neg

(* C8: probit throws for y < 0 and y > 1, returns -Infinity for y = 0 and   *)
(* +Infinity for y = 1, all without a Newton step, and returns the Newton   *)
(* iterate x for every other argument.                                      *)
C8_ProbitDomain ==
    LET special == \/ Lt(y, Num(0))
                   \/ Gt(y, Num(YScale))
                   \/ Eq(y, Num(0))
                   \/ Eq(y, Num(YScale))
    IN  /\ ppc = "loop" => ~special
        /\ ppc = "done" =>
              /\ Lt(y, Num(0)) \/ Gt(y, Num(YScale)) => pout = "throw"
              /\ Eq(y, Num(0)) => pout = "-Infinity"
              /\ Eq(y, Num(YScale)) => pout = "Infinity"
              /\ special => x = 0 /\ cnt = 0 /\ fx = "none"
              /\ ~special => pout = "x"

C8_Witness ==
    /\ ppc = "done"
    /\ pout = "Infinity"

(* C9: the Newton loop makes at most 40 updates of x: every step of a       *)
(* running call either returns x, which it does as soon as |fx| <= 2.3e-16  *)
(* or cnt = 40, or makes one update and counts it, and one of the two is    *)
(* always possible.                                                         *)
C9_NewtonBounded ==
    /\ [](cnt <= MaxIter /\ x = cnt)
    /\ [](ppc = "loop" => ENABLED (NewtonStep \/ ProbitReturn))
    /\ [][ppc = "loop" =>
            \/ /\ ppc' = "done" /\ pout' = "x" /\ x' = x
               /\ fx # "big" \/ cnt = MaxIter
            \/ /\ ppc' = "loop" /\ fx = "big" /\ cnt < MaxIter
               /\ cnt' = cnt + 1 /\ x' = x + 1]_vars

\* the cap is what ended the loop
C9_Witness ==
    /\ ppc = "done"
    /\ pout = "x"
    /\ fx = "big"
    /\ cnt = MaxIter

(* C10: every recursive call of pascal is made on floor(n/2) or on          *)
(* n - floor(n/2) of its caller's n, an index >= 1 and smaller than n, it   *)
(* does not throw, and so a call with n >= 1 and n*die <= 1000 returns.     *)
C10_RecursionDescends ==
    /\ \A i \in 1..Len(log) :
          log[i].from # 0 =>
              /\ log[i].n >= 1
              /\ log[i].n < log[i].from
              /\ log[i].n \in {log[i].from \div 2,
                               log[i].from - (log[i].from \div 2)}
              /\ log[i].how # "throw"
    /\ ret.kind # "none" /\ ret.n >= 1 /\ ret.n * ret.die <= SizeGuard
          => Returned

\* a call whose recursion went at least three levels deep
C10_Witness ==
    /\ Returned
    /\ ret.n = TypedBelow
    /\ \E i, j \in 1..Len(log) :
          /\ log[i].from = ret.n
          /\ log[j].from = log[i].n
          /\ \E k \in 1..Len(log) : log[k].from = log[j].n

\* the locked state of the range selection
Locked == Truthy(dragLock) /\ ~Truthy(dragging)

\* C11: dragging and dragLock are never both true after a handler; while
\* the widget is locked (dragLock true, dragging not), a mousemove, mouseup
\* or mouseleave leaves left, right, dragging and dragLock as they are, and
\* only a mousedown takes the widget out of the locked state.
C11_DragLock ==
    /\ [](~(Truthy(dragging) /\ Truthy(dragLock)))
    /\ [][Locked /\ ~(\E px \in Pixels : mousedown(px))
             => /\ Locked'
                /\ UNCHANGED <<leftAttr, rightAttr, dragging, dragLock>>]_vars

\* a locked widget, with a finite range, that has just handled a mousemove
C11_Witness ==
    /\ Locked
    /\ ev.type = "mousemove"
    /\ Left.kind = "num"
    /\ Right.kind = "num"

\* C12: from a widget without left and right attributes, after every mouse
\* handler left <= right, so that cdf(right) - cdf(left) is not negative.
C12_RangeOrdered == LessEq(Left, Right)

\* a drag released after a long press, towards the left of where it began,
\* that selected a finite, non-empty range
C12_Witness ==
    /\ ev.type = "mouseup"
    /\ Locked
    /\ ev.offsetX < dragStart
    /\ Left.kind = "num"
    /\ Right.kind = "num"
    /\ Left.num < Right.num

====
